---- MODULE Spec2Model ----
(***************************************************************************)
(* Draw targets of paintgl (src/src/DrawTarget.ts): the abstract           *)
(* DrawTarget, the CanvasDrawTarget that draws into the context canvas and *)
(* the TextureDrawTarget that draws into a texture through a framebuffer   *)
(* object it owns.  The WebGL context is modelled as the binding state the *)
(* targets mutate: the bound framebuffer, the scissor test and box, the    *)
(* viewport, the clear colour and the table of framebuffer objects.        *)
(*                                                                         *)
(* Coordinates of a Rect are fixed-point numbers with Sub units per pixel, *)
(* so that a rectangle can have fractional edges and Rect.intBounding is   *)
(* not the identity.  Sizes, scissor boxes and viewports are whole pixels. *)
(*                                                                         *)
(* The collaborators behave as their own documentation says: paintvec's    *)
(* Rect.intBounding floors the top-left corner and ceils the bottom-right  *)
(* one, Rect.intersection returns undefined when there is no common area,  *)
(* a.merge(b) transforms by a and then by b; in WebGL, clear honours the   *)
(* scissor box and not the viewport, a draw call honours both, a           *)
(* framebuffer object without attachment accepts no command, and deleting  *)
(* the bound framebuffer object binds the default one.  Callers follow the *)
(* targets' contract: draw, clear, readPixels and the assignments are made *)
(* on targets that are constructed and not disposed.                       *)
(***************************************************************************)
EXTENDS Integers, FiniteSets, Sequences, TLC

\* ------------------------------------------------------------------ bounds

\* Units of the fixed-point representation per pixel.
Sub == 2
\* Number of texture resources the callers own.
NumTextures == 2
\* Number of framebuffer names the context can hand out.
MaxFramebuffers == 2
\* Largest canvas height, in pixels, of the program that reads back
\* rectangles of every vertical extent.
MaxHeight == 2

\* ------------------------------------------------------------------ values

\* An optional rectangle (Rect|undefined) is a set of at most one rectangle.
NoRect == {}
Some(r) == {r}
The(s) == CHOOSE r \in s : TRUE
\* `undefined` for a texture; the texture resources are 1..NumTextures.
NoTexture == 0
\* `null` of gl.bindFramebuffer, the canvas's own drawing buffer; the
\* framebuffer objects are 1..MaxFramebuffers.
Null == 0

Px(n) == n * Sub

Vec2(x, y) == [x |-> x, y |-> y]

\* new Rect(topLeft, bottomRight), in fixed-point units.
Rect(l, t, r, b) == [left |-> l, top |-> t, right |-> r, bottom |-> b]

\* The rectangle of origin (x, y) and extent (w, h) given in pixels.
RectXYWH(x, y, w, h) == Rect(Px(x), Px(y), Px(x + w), Px(y + h))

\* A device box (x, y, width, height) in whole pixels.
Box(x, y, w, h) == <<x, y, w, h>>

CanvasTargets == {"canvas"}
TextureTargets == {"tex1", "tex2"}
Targets == CanvasTargets \cup TextureTargets

Textures == 1..NumTextures
FramebufferNames == 1..MaxFramebuffers

\* The texture resources: size, pixelType and pixelFormat of each.
TextureSize(x) == IF x = 1 THEN Vec2(100, 50) ELSE Vec2(8, 6)
TexturePixelType(x) == IF x = 1 THEN "byte" ELSE IF x = 2 THEN "float" ELSE "half-float"
TexturePixelFormat(x) == IF x = 1 THEN "rgba" ELSE IF x = 2 THEN "rgb" ELSE "alpha"

\* The sizes the canvas element takes.
CanvasSizes == {Vec2(100, 50), Vec2(8, 6)}

\* The rectangles callers use as scissor and as readback rectangle:
\* one crossing the right edge of a 100x50 target, one with fractional and
\* negative edges, one outside every target.
EdgeRect == RectXYWH(90, 0, 30, 10)
FracRect == Rect(Px(1) + 1, Px(0) - 1, Px(3) + 1, Px(2) + 1)
FarRect == RectXYWH(200, 200, 10, 10)
ClipRects == {Some(EdgeRect), Some(FracRect), Some(FarRect), NoRect}

\* The rectangles with every top and bottom edge, in fixed-point units, from
\* one unit above a canvas of height 0..MaxHeight to one unit below it.
FlipRects ==
  {Rect(1, e[1], Px(2) + 1, e[2]) :
     e \in {p \in (-1..(Px(MaxHeight) + 1)) \X (-1..(Px(MaxHeight) + 1)) :
              p[1] <= p[2]}}

\* The canvas sizes of every height 0..MaxHeight.
FlipSizes == {Vec2(4, h) : h \in 0..MaxHeight}

Colors == {<<0, 0, 0, 0>>}

\* The opts of readPixels: "" is an absent format or type.
ReadOpts == {[format |-> "", type |-> ""], [format |-> "alpha", type |-> "float"]}

\* ------------------------------------------------------------------- state

VARIABLES
  canvas,   \* context.canvas: [width, height]
  gl,       \* the WebGL context's state
  target,   \* the draw targets, by name
  issued,   \* the command the most recent call sent to the device, if any
  missed    \* the targets whose scissor, unassigned since, an activation
            \* found to miss the target altogether

vars == <<canvas, gl, target, issued, missed>>

NoBox == <<0, 0, 0, 0>>

\* A command (model.draw, gl.clear, gl.readPixels) of a call on target t: the
\* framebuffer bound when it was issued, the pixels it could reach and the
\* box of those it wrote; the transform of a draw; the rectangle (in
\* fixed-point units), format and type of a readback.
Command(op, t, fb, dest, wrote, transform, rect, format, type) ==
  [op |-> op, target |-> t, framebuffer |-> fb, destination |-> dest,
   wrote |-> wrote, transform |-> transform, rect |-> rect,
   format |-> format, type |-> type]

\* A call that sends no command: an assignment, a constructor, dispose.
NoCommand == Command("none", "none", 0, <<"none", 0>>, NoBox, <<>>, NoBox, "", "")

\* ------------------------------------------------------------ paintvec Rect

Floor(v) == (v \div Sub) * Sub
Ceil(v) == -(((-v) \div Sub) * Sub)

Max(a, b) == IF a > b THEN a ELSE b
Min(a, b) == IF a < b THEN a ELSE b

\* Rect.intBounding(): the smallest rectangle of whole pixels around r.
intBounding(r) == Rect(Floor(r.left), Floor(r.top), Ceil(r.right), Ceil(r.bottom))

\* Rect.intersection(other): the common rectangle, or undefined when the two
\* have no common area.
intersection(a, b) ==
  LET l == Max(a.left, b.left)
      t == Max(a.top, b.top)
      r == Min(a.right, b.right)
      bo == Min(a.bottom, b.bottom)
  IN IF l < r /\ t < bo THEN Some(Rect(l, t, r, bo)) ELSE NoRect

\* ------------------------------------------------------- paintvec Transform

\* A JavaScript number that arises in a transform: the fraction <<n, d>> in
\* lowest terms with d > 0, or <<1, 0>> (Infinity), <<-1, 0>> (-Infinity),
\* <<0, 0>> (NaN).
Sign(n) == IF n > 0 THEN 1 ELSE IF n < 0 THEN -1 ELSE 0
Abs(n) == IF n < 0 THEN -n ELSE n

RECURSIVE GCD(_, _)
GCD(a, b) == IF b = 0 THEN a ELSE GCD(b, a % b)

Num(n, d) ==
  IF d = 0 THEN <<Sign(n), 0>>
  ELSE LET g == GCD(Abs(n), Abs(d))
       IN <<(Sign(d) * n) \div g, Abs(d) \div g>>

Whole(n) == <<n, 1>>
NaN == <<0, 0>>

NumMul(p, q) == Num(p[1] * q[1], p[2] * q[2])

NumAdd(p, q) ==
  IF p[2] = 0 /\ q[2] = 0
  THEN IF p = q THEN p ELSE NaN
  ELSE Num(p[1] * q[2] + q[1] * p[2], p[2] * q[2])

\* new Transform(): the identity.  A transform is the 3x3 matrix
\* <<m00, m01, m02, m10, m11, m12, m20, m21, m22>> acting on row vectors
\* (x, y, 1).
Identity == <<Whole(1), Whole(0), Whole(0), Whole(0), Whole(1), Whole(0), Whole(0), Whole(0), Whole(1)>>

\* Transform.scale(new Vec2(x, y)) and Transform.translate(new Vec2(x, y)).
TransformScale(x, y) ==
  <<x, Whole(0), Whole(0), Whole(0), y, Whole(0), Whole(0), Whole(0), Whole(1)>>
TransformTranslate(x, y) ==
  <<Whole(1), Whole(0), Whole(0), Whole(0), Whole(1), Whole(0), x, y, Whole(1)>>

\* a.merge(b): the transform by a, then by b.
merge(a, b) ==
  [k \in 1..9 |->
     LET i == (k - 1) \div 3
         j == (k - 1) % 3
     IN NumAdd(NumAdd(NumMul(a[3 * i + 1], b[j + 1]),
                      NumMul(a[3 * i + 2], b[3 + j + 1])),
               NumMul(a[3 * i + 3], b[6 + j + 1]))]

\* A global transform a caller can store: the quarter turn about the origin
\* followed by the translation by (3, 5); it commutes with none of the
\* transforms draw() merges.
QuarterTurn ==
  <<Whole(0), Whole(1), Whole(0), Whole(-1), Whole(0), Whole(0), Whole(3), Whole(5), Whole(1)>>

Transforms == {Identity, QuarterTurn}

\* The image of the point (x, y) under transform m.
TransformPoint(m, x, y) ==
  <<NumAdd(NumAdd(NumMul(x, m[1]), NumMul(y, m[4])), m[7]),
    NumAdd(NumAdd(NumMul(x, m[2]), NumMul(y, m[5])), m[8])>>

\* ------------------------------------------------------------ WebGL context

\* Clipping of device boxes, in pixels.
BoxIntersection(a, b) ==
  LET l == Max(a[1], b[1])
      t == Max(a[2], b[2])
      r == Min(a[1] + a[3], b[1] + b[3])
      bo == Min(a[2] + a[4], b[2] + b[4])
  IN IF l < r /\ t < bo THEN Box(l, t, r - l, bo - t) ELSE Box(0, 0, 0, 0)

BoxIsEmpty(b) == b[3] <= 0 \/ b[4] <= 0

\* gl.bindFramebuffer(gl.FRAMEBUFFER, fb): a deleted name is an
\* INVALID_OPERATION and leaves the binding.
glBindFramebuffer(g, fb) ==
  IF fb = Null \/ g.fbo[fb].status = "alive"
  THEN [g EXCEPT !.framebuffer = fb]
  ELSE g

\* gl.framebufferTexture2D(gl.FRAMEBUFFER, gl.COLOR_ATTACHMENT0, ..., tex, 0):
\* attaches to the bound framebuffer object; INVALID_OPERATION on the default one.
glFramebufferTexture2D(g, tex) ==
  IF g.framebuffer = Null
  THEN g
  ELSE [g EXCEPT !.fbo[g.framebuffer].color0 = tex]

\* The name gl.createFramebuffer() returns.
FreshFramebuffer(g) ==
  CHOOSE fb \in FramebufferNames :
    /\ g.fbo[fb].status = "free"
    /\ \A other \in FramebufferNames : g.fbo[other].status = "free" => fb <= other

glCreateFramebuffer(g, fb) ==
  [g EXCEPT !.fbo[fb] = [status |-> "alive", color0 |-> NoTexture],
            !.created = @ + 1]

\* gl.deleteFramebuffer(fb): ignored for a name already deleted; a bound
\* framebuffer that is deleted is replaced by the default one.
glDeleteFramebuffer(g, fb) ==
  IF g.fbo[fb].status # "alive"
  THEN g
  ELSE [g EXCEPT !.fbo[fb].status = "deleted",
                 !.deleted = @ + 1,
                 !.framebuffer = IF @ = fb THEN Null ELSE @]

glEnableScissor(g) == [g EXCEPT !.scissorTest = TRUE]
glDisableScissor(g) == [g EXCEPT !.scissorTest = FALSE]
glScissor(g, x, y, w, h) == [g EXCEPT !.scissorBox = Box(x, y, w, h)]
glViewport(g, x, y, w, h) == [g EXCEPT !.viewport = Box(x, y, w, h)]
glClearColor(g, color) == [g EXCEPT !.clearColor = color]

\* The pixels a command can reach: the canvas's drawing buffer when the
\* default framebuffer is bound, else the texture attached to the bound
\* framebuffer object; nothing when that object has no attachment
\* (INVALID_FRAMEBUFFER_OPERATION).
Destination(g) ==
  IF g.framebuffer = Null THEN <<"canvas", 0>>
  ELSE IF g.fbo[g.framebuffer].color0 = NoTexture THEN <<"none", 0>>
  ELSE <<"texture", g.fbo[g.framebuffer].color0>>

DestinationBox(g, cv) ==
  LET d == Destination(g)
  IN IF d[1] = "canvas" THEN Box(0, 0, cv.width, cv.height)
     ELSE IF d[1] = "none" THEN Box(0, 0, 0, 0)
     ELSE Box(0, 0, TextureSize(d[2]).x, TextureSize(d[2]).y)

ScissoredBox(g, box) ==
  IF g.scissorTest THEN BoxIntersection(box, g.scissorBox) ELSE box

\* gl.clear(gl.COLOR_BUFFER_BIT) writes the destination inside the scissor box.
ClearedBox(g, cv) ==
  BoxIntersection(ScissoredBox(g, DestinationBox(g, cv)), DestinationBox(g, cv))

\* A draw call writes at most the destination inside viewport and scissor box.
DrawnBox(g, cv) ==
  ScissoredBox(g, BoxIntersection(DestinationBox(g, cv), g.viewport))

\* -------------------------------------------------------------- DrawTarget

\* A size read once, when the target was constructed.
CanvasDrawTarget_size_Cached(cv) == Vec2(100, 50)

\* get size(): the canvas's current dimensions, or the attached texture's size.
CanvasDrawTarget_size(cv) == Vec2(cv.width, cv.height)

TextureDrawTarget_size(tg, t) ==
  IF tg[t].texture # NoTexture THEN TextureSize(tg[t].texture) ELSE Vec2(0, 0)

size(tg, cv, t) ==
  IF tg[t].kind = "canvas" THEN CanvasDrawTarget_size(cv) ELSE TextureDrawTarget_size(tg, t)

\* A pixelType that is the canvas target's for every target.
pixelType_AlwaysByte(tg, t) == "byte"

pixelType(tg, t) ==
  IF tg[t].kind = "canvas" THEN "byte"
  ELSE IF tg[t].texture # NoTexture THEN TexturePixelType(tg[t].texture) ELSE "byte"

pixelFormat(tg, t) ==
  IF tg[t].kind = "canvas" THEN "rgba"
  ELSE IF tg[t].texture # NoTexture THEN TexturePixelFormat(tg[t].texture) ELSE "rgba"

\* A flip that moves each edge by itself and leaves top below bottom.
_flipRect_EdgeByEdge(tg, cv, t, rect) ==
  IF tg[t].flipY
  THEN LET top == Px(size(tg, cv, t).y) - rect.top
           bottom == Px(size(tg, cv, t).y) - rect.bottom
       IN Rect(rect.left, top, rect.right, bottom)
  ELSE rect

\* A flip that answers the whole pixels around the flipped rectangle.
_flipRect_Rounded(tg, cv, t, rect) ==
  intBounding(IF tg[t].flipY
              THEN LET top == Px(size(tg, cv, t).y) - rect.bottom
                       bottom == Px(size(tg, cv, t).y) - rect.top
                   IN Rect(rect.left, top, rect.right, bottom)
              ELSE rect)

\* A flip applied whatever flipY says.
_flipRect_Always(tg, cv, t, rect) ==
  LET top == Px(size(tg, cv, t).y) - rect.bottom
      bottom == Px(size(tg, cv, t).y) - rect.top
  IN Rect(rect.left, top, rect.right, bottom)

_flipRect(tg, cv, t, rect) ==
  IF tg[t].flipY
  THEN LET top == Px(size(tg, cv, t).y) - rect.bottom
           bottom == Px(size(tg, cv, t).y) - rect.top
       IN Rect(rect.left, top, rect.right, bottom)
  ELSE rect

\* A scissor rectangle that is not rounded to whole pixels before clamping.
scissorRect_NoRounding(tg, cv, t) ==
  LET drawableRect == Rect(0, 0, Px(size(tg, cv, t).x), Px(size(tg, cv, t).y))
  IN intersection(_flipRect(tg, cv, t, The(tg[t].scissor)), drawableRect)

\* The rectangle handed to gl.scissor.
scissorRect(tg, cv, t) ==
  LET drawableRect == Rect(0, 0, Px(size(tg, cv, t).x), Px(size(tg, cv, t).y))
  IN intersection(intBounding(_flipRect(tg, cv, t, The(tg[t].scissor))), drawableRect)

\* A use() that sets no scissor box when the scissor misses the target.
DrawTarget_use_StaleBox(g, tg, cv, t) ==
  LET g1 ==
        IF tg[t].scissor # NoRect
        THEN LET rect == scissorRect(tg, cv, t)
             IN IF rect # NoRect
                THEN glScissor(glEnableScissor(g),
                               The(rect).left \div Sub, The(rect).top \div Sub,
                               (The(rect).right - The(rect).left) \div Sub,
                               (The(rect).bottom - The(rect).top) \div Sub)
                ELSE glEnableScissor(g)
        ELSE glDisableScissor(g)
  IN glViewport(g1, 0, 0, size(tg, cv, t).x, size(tg, cv, t).y)

\* A use() that turns the scissor test off when the scissor misses the target.
DrawTarget_use_DisableWhenEmpty(g, tg, cv, t) ==
  LET g1 ==
        IF tg[t].scissor # NoRect
        THEN LET rect == scissorRect(tg, cv, t)
             IN IF rect # NoRect
                THEN glScissor(glEnableScissor(g),
                               The(rect).left \div Sub, The(rect).top \div Sub,
                               (The(rect).right - The(rect).left) \div Sub,
                               (The(rect).bottom - The(rect).top) \div Sub)
                ELSE glDisableScissor(g)
        ELSE glDisableScissor(g)
  IN glViewport(g1, 0, 0, size(tg, cv, t).x, size(tg, cv, t).y)

\* DrawTarget.use()
DrawTarget_use(g, tg, cv, t) ==
  LET g1 ==
        IF tg[t].scissor # NoRect
        THEN LET rect == scissorRect(tg, cv, t)
             IN IF rect # NoRect
                THEN glScissor(glEnableScissor(g),
                               The(rect).left \div Sub, The(rect).top \div Sub,
                               (The(rect).right - The(rect).left) \div Sub,
                               (The(rect).bottom - The(rect).top) \div Sub)
                ELSE glScissor(glEnableScissor(g), 0, 0, 0, 0)
        ELSE glDisableScissor(g)
  IN glViewport(g1, 0, 0, size(tg, cv, t).x, size(tg, cv, t).y)

CanvasDrawTarget_use(g, tg, cv, t) ==
  DrawTarget_use(glBindFramebuffer(g, Null), tg, cv, t)

\* A use() that leaves the framebuffer binding as it finds it.
TextureDrawTarget_use_NoBind(g, tg, cv, t) ==
  DrawTarget_use(g, tg, cv, t)

TextureDrawTarget_use(g, tg, cv, t) ==
  DrawTarget_use(glBindFramebuffer(g, tg[t].framebuffer), tg, cv, t)

use(g, tg, cv, t) ==
  IF tg[t].kind = "canvas"
  THEN CanvasDrawTarget_use(g, tg, cv, t)
  ELSE TextureDrawTarget_use(g, tg, cv, t)

\* A draw transform that translates before it scales.
drawTransform_TranslateFirst(tg, cv, t) ==
  LET sz == size(tg, cv, t)
      transform ==
        merge(merge(tg[t].transform,
                    TransformTranslate(Whole(-1), Whole(-1))),
              TransformScale(Num(2, sz.x), Num(2, sz.y)))
  IN IF tg[t].flipY
     THEN merge(transform, TransformScale(Whole(1), Whole(-1)))
     ELSE transform

\* A draw transform that applies the global transform last.
drawTransform_GlobalLast(tg, cv, t) ==
  LET sz == size(tg, cv, t)
      transform ==
        merge(TransformScale(Num(2, sz.x), Num(2, sz.y)),
              TransformTranslate(Whole(-1), Whole(-1)))
  IN merge(IF tg[t].flipY
           THEN merge(transform, TransformScale(Whole(1), Whole(-1)))
           ELSE transform,
           tg[t].transform)

\* The transform draw() hands to model.draw.
drawTransform(tg, cv, t) ==
  LET sz == size(tg, cv, t)
      transform ==
        merge(merge(tg[t].transform,
                    TransformScale(Num(2, sz.x), Num(2, sz.y))),
              TransformTranslate(Whole(-1), Whole(-1)))
  IN IF tg[t].flipY
     THEN merge(transform, TransformScale(Whole(1), Whole(-1)))
     ELSE transform

\* The targets with a scissor that misses the target, after an activation of t.
Missed(t) ==
  IF target[t].scissor # NoRect /\ scissorRect(target, canvas, t) = NoRect
  THEN missed \cup {t}
  ELSE missed

\* The targets a caller can operate on: constructed and not disposed.
Live(t) == target[t].status = "live"

\* ------------------------------------------------------------------ actions

Init ==
  /\ canvas = [width |-> 100, height |-> 50]
  /\ gl = [framebuffer |-> Null,
           scissorTest |-> FALSE,
           scissorBox |-> Box(0, 0, 100, 50),
           viewport |-> Box(0, 0, 100, 50),
           clearColor |-> <<0, 0, 0, 0>>,
           fbo |-> [fb \in FramebufferNames |-> [status |-> "free", color0 |-> NoTexture]],
           textures |-> [x \in Textures |-> "alive"],
           created |-> 0,
           deleted |-> 0]
  /\ target = [t \in Targets |->
                 IF t \in CanvasTargets
                 THEN [kind |-> "canvas", status |-> "live", scissor |-> NoRect,
                       flipY |-> TRUE, transform |-> Identity,
                       framebuffer |-> Null, texture |-> NoTexture]
                 ELSE [kind |-> "texture", status |-> "absent", scissor |-> NoRect,
                       flipY |-> FALSE, transform |-> Identity,
                       framebuffer |-> Null, texture |-> NoTexture]]
  /\ issued = NoCommand
  /\ missed = {}

\* draw(model)
draw(t) ==
  /\ Live(t)
  /\ LET g == use(gl, target, canvas, t)
     IN /\ gl' = g
        /\ issued' = Command("draw", t, g.framebuffer, Destination(g), DrawnBox(g, canvas),
                             drawTransform(target, canvas, t), NoBox, "", "")
  /\ missed' = Missed(t)
  /\ UNCHANGED <<canvas, target>>

\* clear(color)
clear(t, color) ==
  /\ Live(t)
  /\ LET g == glClearColor(use(gl, target, canvas, t), color)
     IN /\ gl' = g
        /\ issued' = Command("clear", t, g.framebuffer, Destination(g), ClearedBox(g, canvas),
                             <<>>, NoBox, "", "")
  /\ missed' = Missed(t)
  /\ UNCHANGED <<canvas, target>>

\* readPixels(rect, data, opts)
readPixels(t, rect, opts) ==
  /\ Live(t)
  /\ LET g == use(gl, target, canvas, t)
         flipped == _flipRect(target, canvas, t, rect)
     IN /\ gl' = g
        /\ issued' = Command("readPixels", t, g.framebuffer, Destination(g), NoBox, <<>>,
                             Box(flipped.left, flipped.top,
                                 flipped.right - flipped.left,
                                 flipped.bottom - flipped.top),
                             IF opts.format # "" THEN opts.format
                             ELSE pixelFormat(target, t),
                             IF opts.type # "" THEN opts.type
                             ELSE pixelType(target, t))
  /\ missed' = Missed(t)
  /\ UNCHANGED <<canvas, target>>

\* The assignment `target.scissor = rect` (or undefined).
setScissor(t, rect) ==
  /\ Live(t)
  /\ target' = [target EXCEPT ![t].scissor = rect]
  /\ issued' = NoCommand
  /\ missed' = IF rect = target[t].scissor THEN missed ELSE missed \ {t}
  /\ UNCHANGED <<canvas, gl>>

\* The assignment `target.transform = m`.
setTransform(t, m) ==
  /\ Live(t)
  /\ target' = [target EXCEPT ![t].transform = m]
  /\ issued' = NoCommand
  /\ UNCHANGED <<canvas, gl, missed>>

\* A setter that attaches through the framebuffer object created first,
\* whichever target owns it.
setTextureGl_Shared(g, fb, texture) ==
  IF texture # NoTexture
  THEN glFramebufferTexture2D(glBindFramebuffer(g, 1), texture)
  ELSE g

\* A setter that binds the previous framebuffer again after attaching.
setTextureGl_Restore(g, fb, texture) ==
  IF texture # NoTexture
  THEN glBindFramebuffer(glFramebufferTexture2D(glBindFramebuffer(g, fb), texture),
                         g.framebuffer)
  ELSE g

\* A setter that attaches to whichever framebuffer is bound.
setTextureGl_NoBind(g, fb, texture) ==
  IF texture # NoTexture
  THEN glFramebufferTexture2D(g, texture)
  ELSE g

\* set texture(texture), on the device.
setTextureGl(g, fb, texture) ==
  IF texture # NoTexture
  THEN glFramebufferTexture2D(glBindFramebuffer(g, fb), texture)
  ELSE g

\* The assignment `target.texture = texture` (or undefined).
setTexture(t, texture) ==
  /\ Live(t)
  /\ target[t].kind = "texture"
  /\ gl' = setTextureGl(gl, target[t].framebuffer, texture)
  /\ target' = [target EXCEPT ![t].texture = texture]
  /\ issued' = NoCommand
  /\ UNCHANGED <<canvas, missed>>

\* new TextureDrawTarget(context, texture?)
TextureDrawTarget_constructor(t, texture) ==
  /\ target[t].kind = "texture"
  /\ target[t].status = "absent"
  /\ \E fb \in FramebufferNames : gl.fbo[fb].status = "free"
  /\ LET fb == FreshFramebuffer(gl)
     IN /\ gl' = setTextureGl(glCreateFramebuffer(gl, fb), fb, texture)
        /\ target' = [target EXCEPT ![t].status = "live",
                                    ![t].framebuffer = fb,
                                    ![t].texture = texture]
  /\ issued' = NoCommand
  /\ UNCHANGED <<canvas, missed>>

\* A dispose() that deletes the framebuffer that is bound.
disposeGl_Bound(g, tg, t) ==
  IF tg[t].kind = "texture" /\ g.framebuffer # Null
  THEN glDeleteFramebuffer(g, g.framebuffer)
  ELSE g

\* A dispose() that also deletes the texture the target holds.
disposeGl_WithTexture(g, tg, t) ==
  IF tg[t].kind = "texture"
  THEN LET d == glDeleteFramebuffer(g, tg[t].framebuffer)
       IN IF tg[t].texture # NoTexture
          THEN [d EXCEPT !.textures[tg[t].texture] = "deleted"]
          ELSE d
  ELSE g

\* A dispose() that, on a canvas target, goes back to the default framebuffer.
disposeGl_Unbind(g, tg, t) ==
  IF tg[t].kind = "texture"
  THEN glDeleteFramebuffer(g, tg[t].framebuffer)
  ELSE glBindFramebuffer(g, Null)

\* dispose(), on the device.
disposeGl(g, tg, t) ==
  IF tg[t].kind = "texture" THEN glDeleteFramebuffer(g, tg[t].framebuffer) ELSE g

\* dispose()
dispose(t) ==
  /\ target[t].status # "absent"
  /\ gl' = disposeGl(gl, target, t)
  /\ target' = [target EXCEPT ![t].status =
                  IF target[t].kind = "texture" THEN "disposed" ELSE @]
  /\ issued' = NoCommand
  /\ UNCHANGED <<canvas, missed>>

\* The page resizes the canvas element.
resizeCanvas(sz) ==
  /\ canvas' = [width |-> sz.x, height |-> sz.y]
  /\ issued' = NoCommand
  /\ UNCHANGED <<gl, target, missed>>

\* The calls of a program that uses the targets w.targets, the scissor
\* rectangles w.clips, the readback rectangles w.reads, the textures w.textures and the
\* canvas sizes w.sizes.
Step(w) ==
  \/ \E t \in w.targets : draw(t)
  \/ \E t \in w.targets, color \in Colors : clear(t, color)
  \/ \E t \in w.targets, rect \in w.reads, opts \in ReadOpts : readPixels(t, rect, opts)
  \/ \E t \in w.targets, rect \in w.clips : setScissor(t, rect)
  \/ \E t \in w.targets, texture \in w.textures : setTexture(t, texture)
  \/ \E t \in w.targets, texture \in w.textures : TextureDrawTarget_constructor(t, texture)
  \/ \E t \in w.targets : dispose(t)
  \/ \E sz \in w.sizes : resizeCanvas(sz)

\* A program with the canvas target and two texture targets that swaps
\* textures and never sets a scissor.
Program ==
  [targets |-> Targets,
   clips |-> {NoRect},
   reads |-> {FracRect},
   textures |-> Textures \cup {NoTexture},
   sizes |-> CanvasSizes]

\* A program with the canvas target and one texture target that sets
\* scissors and attaches the 100x50 texture.
ClipProgram ==
  [targets |-> {"canvas", "tex1"},
   clips |-> ClipRects,
   reads |-> {FracRect},
   textures |-> {NoTexture, 1},
   sizes |-> CanvasSizes]

Next == Step(Program)
Spec == Init /\ [][Next]_vars

NextClip == Step(ClipProgram)
SpecClip == Init /\ [][NextClip]_vars

\* A program with the canvas target and one texture target that resizes the
\* canvas to every height and reads back rectangles of every vertical extent.
FlipProgram ==
  [targets |-> {"canvas", "tex1"},
   clips |-> {NoRect},
   reads |-> FlipRects,
   textures |-> {NoTexture, 1},
   sizes |-> FlipSizes]

NextFlip == Step(FlipProgram)
SpecFlip == Init /\ [][NextFlip]_vars

\* A program with the canvas target and one texture target that stores
\* global transforms in them.
TransformProgram ==
  [targets |-> {"canvas", "tex1"},
   clips |-> {NoRect},
   reads |-> {FracRect},
   textures |-> Textures \cup {NoTexture},
   sizes |-> CanvasSizes]

NextTransform ==
  \/ Step(TransformProgram)
  \/ \E t \in TransformProgram.targets, m \in Transforms : setTransform(t, m)
SpecTransform == Init /\ [][NextTransform]_vars

\* ------------------------------------------------------------------ claims

Commands == {"draw", "clear", "readPixels"}

\* The framebuffer a target draws into: the default one for the canvas
\* target, its own framebuffer object for a texture target.
OwnFramebuffer(t) ==
  IF t \in CanvasTargets THEN Null ELSE target[t].framebuffer

\* C1: the command of draw, clear or readPixels on target T is issued while
\* the bound framebuffer is T's own: null for the canvas target, T's own
\* framebuffer object (alive, and no other target's) for a texture target.
C1_CommandOnOwnFramebuffer ==
  issued.op \in Commands =>
    /\ issued.framebuffer = OwnFramebuffer(issued.target)
    /\ gl.framebuffer = OwnFramebuffer(issued.target)
    /\ issued.target \in TextureTargets =>
         /\ issued.framebuffer # Null
         /\ gl.fbo[issued.framebuffer].status = "alive"
         /\ \A u \in TextureTargets \ {issued.target} :
              target[u].status # "absent" => target[u].framebuffer # issued.framebuffer

\* C1 witness: a command on tex2 issued on tex2's framebuffer while tex1 is
\* live with a texture attached and the canvas target exists.
C1_Witness ==
  /\ issued.op = "clear"
  /\ issued.target = "tex2"
  /\ issued.framebuffer = target["tex2"].framebuffer
  /\ target["tex1"].status = "live"
  /\ target["tex1"].texture # NoTexture
  /\ target["tex1"].framebuffer # target["tex2"].framebuffer

\* The size of target t, read from the canvas or from the attached texture.
ExpectedSize(t) ==
  IF t \in CanvasTargets THEN <<canvas.width, canvas.height>>
  ELSE IF target[t].texture = NoTexture THEN <<0, 0>>
  ELSE <<TextureSize(target[t].texture).x, TextureSize(target[t].texture).y>>

PixelFloor(v) == v \div Sub
PixelCeil(v) == (v + Sub - 1) \div Sub

\* intRound(flipRect(C)) /\ B for the scissor C of target t, as the box
\* (x, y, width, height) in pixels; (0, 0, 0, 0) when they do not meet.
ExpectedMask(t) ==
  LET c == The(target[t].scissor)
      w == ExpectedSize(t)[1]
      h == ExpectedSize(t)[2]
      top == IF target[t].flipY THEN Px(h) - c.bottom ELSE c.top
      bottom == IF target[t].flipY THEN Px(h) - c.top ELSE c.bottom
      x0 == Max(0, PixelFloor(c.left))
      y0 == Max(0, PixelFloor(top))
      x1 == Min(w, PixelCeil(c.right))
      y1 == Min(h, PixelCeil(bottom))
  IN IF x0 < x1 /\ y0 < y1 THEN <<x0, y0, x1 - x0, y1 - y0>> ELSE <<0, 0, 0, 0>>

\* C2: when a target with a scissor C is activated, the box sent to
\* gl.scissor is intRound(flipRect(C)) clamped to [0,0]x size, and (0,0,0,0)
\* when they do not meet; size (100,50) and C = (90,0,30,10) give (90,0,10,10)
\* without flipY and (90,40,10,10) with flipY.
C2_MaskRect ==
  (issued.op \in Commands /\ target[issued.target].scissor # NoRect) =>
    LET t == issued.target
    IN /\ gl.scissorBox = ExpectedMask(t)
       /\ (ExpectedSize(t) = <<100, 50>> /\ target[t].scissor = Some(EdgeRect)) =>
            gl.scissorBox = IF target[t].flipY THEN <<90, 40, 10, 10>>
                            ELSE <<90, 0, 10, 10>>

\* C2 witness: the flipped scenario, on the 100x50 canvas.
C2_Witness ==
  /\ issued.op \in Commands
  /\ issued.target = "canvas"
  /\ canvas = [width |-> 100, height |-> 50]
  /\ target["canvas"].scissor = Some(EdgeRect)
  /\ target["canvas"].flipY
  /\ gl.scissorBox = <<90, 40, 10, 10>>

\* C3: right after the activation of a draw, clear or readPixels on T the
\* scissor test is enabled exactly when T has a scissor, and the scissor box
\* is then the one of T's scissor and size at that call.
C3_ScissorFresh ==
  issued.op \in Commands =>
    LET t == issued.target
    IN /\ gl.scissorTest = (target[t].scissor # NoRect)
       /\ target[t].scissor # NoRect =>
            LET rect == scissorRect(target, canvas, t)
            IN gl.scissorBox =
                 IF rect = NoRect THEN <<0, 0, 0, 0>>
                 ELSE <<The(rect).left \div Sub, The(rect).top \div Sub,
                        (The(rect).right - The(rect).left) \div Sub,
                        (The(rect).bottom - The(rect).top) \div Sub>>

\* C3 witness: a command on the texture target with no scissor, the test
\* disabled, while the canvas target has a scissor and the box left by an
\* earlier activation is still in the context.
C3_Witness ==
  /\ issued.op \in Commands
  /\ issued.target = "tex1"
  /\ target["tex1"].scissor = NoRect
  /\ ~gl.scissorTest
  /\ target["canvas"].scissor = Some(EdgeRect)
  /\ gl.scissorBox = <<90, 40, 10, 10>>

\* C4: every activation of T sets the viewport to (0, 0, W, H) with (W, H)
\* the size of T at that call: the current size of the canvas, the size of
\* the attached texture, or (0, 0) with no texture.
C4_ViewportIsSize ==
  issued.op \in Commands =>
    gl.viewport = <<0, 0, ExpectedSize(issued.target)[1], ExpectedSize(issued.target)[2]>>

\* C4 witness: a command on the canvas target, with a scissor set, after the
\* canvas was resized from 100x50 to 8x6.
C4_Witness ==
  /\ issued.op \in Commands
  /\ issued.target = "canvas"
  /\ target["canvas"].scissor # NoRect
  /\ canvas = [width |-> 8, height |-> 6]
  /\ gl.viewport = <<0, 0, 8, 6>>

\* C5: after the texture of a texture target is set to undefined, the
\* colour attachment 0 of its framebuffer holds no texture.
C5_DetachUnbinds ==
  \A t \in TextureTargets :
    (target[t].status = "live" /\ target[t].texture = NoTexture) =>
      gl.fbo[target[t].framebuffer].color0 = NoTexture

\* C6: for a texture target with no texture (never attached, or attached
\* and then set to undefined), draw, clear and readPixels set a viewport and
\* a scissor box of zero area and write no pixel of any texture.
C6_NoTextureNoEffect ==
  (/\ issued.op \in Commands
   /\ issued.target \in TextureTargets
   /\ target[issued.target].texture = NoTexture) =>
    /\ BoxIsEmpty(gl.viewport)
    /\ gl.scissorTest => BoxIsEmpty(gl.scissorBox)
    /\ BoxIsEmpty(issued.wrote)

\* C7: whenever the texture most recently assigned to a texture target (by
\* the constructor or the setter) is a texture B, colour attachment 0 of the
\* target's framebuffer holds B.
C7_AttachmentHoldsTexture ==
  \A t \in TextureTargets :
    (target[t].status = "live" /\ target[t].texture # NoTexture) =>
      /\ gl.fbo[target[t].framebuffer].status = "alive"
      /\ gl.fbo[target[t].framebuffer].color0 = target[t].texture

\* C7 witness: both texture targets hold a texture, each in its own
\* framebuffer, after commands were issued.
C7_Witness ==
  /\ issued.op \in Commands
  /\ target["tex1"].status = "live"
  /\ target["tex2"].status = "live"
  /\ target["tex1"].texture = 2
  /\ target["tex2"].texture = 1
  /\ gl.fbo[target["tex1"].framebuffer].color0 = 2
  /\ gl.fbo[target["tex2"].framebuffer].color0 = 1

\* The scissor of target t has no area in common with [0,0] x size.
ClipOutside(t) ==
  LET c == The(target[t].scissor)
      w == ExpectedSize(t)[1]
      h == ExpectedSize(t)[2]
  IN \/ c.right <= 0
     \/ c.bottom <= 0
     \/ c.left >= Px(w)
     \/ c.top >= Px(h)
     \/ c.left >= c.right
     \/ c.top >= c.bottom

\* C8 as stated: once an activation found the scissor of a target entirely
\* outside the target, every draw or clear on that target has the scissor
\* test enabled with a zero-area box and writes no pixel until the scissor
\* is assigned again.
C8_SuppressedUntilScissorChanges ==
  (issued.op \in {"draw", "clear"} /\ issued.target \in missed) =>
    /\ gl.scissorTest
    /\ gl.scissorBox = <<0, 0, 0, 0>>
    /\ BoxIsEmpty(issued.wrote)

\* C8 amended: every activation of a target whose scissor lies entirely
\* outside the target's size at that call enables the scissor test with the
\* box (0,0,0,0), and the draw or clear writes no pixel; this lasts while
\* neither the scissor nor the target's size changes.
C8_OutsideScissorSuppresses ==
  (/\ issued.op \in Commands
   /\ target[issued.target].scissor # NoRect
   /\ ClipOutside(issued.target)) =>
    /\ gl.scissorTest
    /\ gl.scissorBox = <<0, 0, 0, 0>>
    /\ BoxIsEmpty(issued.wrote)
    /\ issued.target \in missed

\* C8 witness: a clear on the canvas target whose scissor lies outside it.
C8_Witness ==
  /\ issued.op = "clear"
  /\ issued.target = "canvas"
  /\ target["canvas"].scissor = Some(FarRect)
  /\ gl.scissorTest
  /\ gl.scissorBox = <<0, 0, 0, 0>>
  /\ "canvas" \in missed

\* C9: one framebuffer object is created per texture target, by its
\* constructor; dispose deletes that object and no other; no other call
\* creates or deletes a framebuffer object.
C9_OneFramebufferPerTarget ==
  /\ gl.created = Cardinality({t \in TextureTargets : target[t].status # "absent"})
  /\ gl.deleted = Cardinality({t \in TextureTargets : target[t].status = "disposed"})
  /\ \A t \in TextureTargets :
       /\ target[t].status = "live" => gl.fbo[target[t].framebuffer].status = "alive"
       /\ target[t].status = "disposed" => gl.fbo[target[t].framebuffer].status = "deleted"
  /\ \A fb \in FramebufferNames :
       gl.fbo[fb].status # "free" =>
         Cardinality({t \in TextureTargets :
                        target[t].status # "absent" /\ target[t].framebuffer = fb}) = 1

\* C9 witness: tex1 disposed and tex2 live after commands, one framebuffer
\* object deleted out of two created.
C9_Witness ==
  /\ issued.op \in Commands
  /\ target["tex1"].status = "disposed"
  /\ target["tex2"].status = "live"
  /\ gl.created = 2
  /\ gl.deleted = 1
  /\ gl.fbo[target["tex2"].framebuffer].status = "alive"

\* C10: size, pixelType and pixelFormat of a texture target are those of
\* the texture it holds now, and zero size, "byte" and "rgba" when it holds
\* none.
C10_PropertiesFollowTexture ==
  \A t \in TextureTargets :
    target[t].status = "live" =>
      IF target[t].texture # NoTexture
      THEN /\ size(target, canvas, t) = TextureSize(target[t].texture)
           /\ pixelType(target, t) = TexturePixelType(target[t].texture)
           /\ pixelFormat(target, t) = TexturePixelFormat(target[t].texture)
      ELSE /\ size(target, canvas, t) = Vec2(0, 0)
           /\ pixelType(target, t) = "byte"
           /\ pixelFormat(target, t) = "rgba"

\* C10 witness: tex1 holds the float rgb texture, tex2 was given a texture
\* and then undefined.
C10_Witness ==
  /\ target["tex1"].status = "live"
  /\ target["tex1"].texture = 2
  /\ pixelType(target, "tex1") = "float"
  /\ target["tex2"].status = "live"
  /\ target["tex2"].texture = NoTexture
  /\ gl.fbo[target["tex2"].framebuffer].color0 # NoTexture
  /\ size(target, canvas, "tex2") = Vec2(0, 0)

\* The rectangle of a readback box (left, top, width, height).
BoxRect(b) == Rect(b[1], b[2], b[1] + b[3], b[2] + b[4])

\* C11: on a target with flipY, for every rectangle R and the height H of
\* the target, the flip keeps left and right, maps top to H - bottom and
\* bottom to H - top, and flipping twice at one size gives R back; the
\* rectangle a readback sends to the device flips back to one the caller
\* gave.
C11_FlipInvolution ==
  /\ \A t \in Targets :
       (target[t].status = "live" /\ target[t].flipY) =>
         \A R \in FlipRects :
           LET F == _flipRect(target, canvas, t, R)
               H == Px(ExpectedSize(t)[2])
           IN /\ F.left = R.left
              /\ F.right = R.right
              /\ F.top = H - R.bottom
              /\ F.bottom = H - R.top
              /\ _flipRect(target, canvas, t, F) = R
  /\ (issued.op = "readPixels" /\ target[issued.target].flipY) =>
       _flipRect(target, canvas, issued.target, BoxRect(issued.rect)) \in FlipRects

\* C11 witness: a readback on the canvas of height 2 of the rectangle with
\* top 1 and bottom 4 (fixed-point), sent mirrored around the height.
C11_Witness ==
  /\ issued.op = "readPixels"
  /\ issued.target = "canvas"
  /\ target["canvas"].flipY
  /\ canvas.height = 2
  /\ issued.rect = <<1, Px(2) - 4, Px(2), 3>>

\* C12: on a target without flipY, flipRect(R) = R for every rectangle R,
\* and the rectangle a readback sends to the device is one the caller gave,
\* unmirrored.
C12_NoFlipIdentity ==
  /\ \A t \in Targets :
       (target[t].status = "live" /\ ~target[t].flipY) =>
         \A R \in FlipRects : _flipRect(target, canvas, t, R) = R
  /\ (issued.op = "readPixels" /\ ~target[issued.target].flipY) =>
       BoxRect(issued.rect) \in FlipRects

\* C12 witness: a readback on the texture target holding the 100x50
\* texture, of the rectangle with top 1 and bottom 4, sent as it is.
C12_Witness ==
  /\ issued.op = "readPixels"
  /\ issued.target = "tex1"
  /\ ~target["tex1"].flipY
  /\ target["tex1"].texture = 1
  /\ issued.rect = <<1, 1, Px(2), 3>>

\* C13: after a draw on a target of size (W, H) with W, H > 0 whose global
\* transform is the identity, the transform handed to the model maps (0, 0)
\* to (-1, -1) and (W, H) to (1, 1) without flipY, and (0, 0) to (-1, 1) and
\* (W, H) to (1, -1) with flipY.
C13_CornersToClipSpace ==
  (/\ issued.op = "draw"
   /\ ExpectedSize(issued.target)[1] > 0
   /\ ExpectedSize(issued.target)[2] > 0
   /\ target[issued.target].transform = Identity) =>
    LET W == ExpectedSize(issued.target)[1]
        H == ExpectedSize(issued.target)[2]
        origin == TransformPoint(issued.transform, Whole(0), Whole(0))
        corner == TransformPoint(issued.transform, Whole(W), Whole(H))
    IN IF target[issued.target].flipY
       THEN origin = <<Whole(-1), Whole(1)>> /\ corner = <<Whole(1), Whole(-1)>>
       ELSE origin = <<Whole(-1), Whole(-1)>> /\ corner = <<Whole(1), Whole(1)>>

\* C13 witness: a draw on the 8x6 canvas (flipY) with the identity stored,
\* after the texture target got the quarter turn.
C13_Witness ==
  /\ issued.op = "draw"
  /\ issued.target = "canvas"
  /\ canvas = [width |-> 8, height |-> 6]
  /\ target["canvas"].flipY
  /\ target["canvas"].transform = Identity
  /\ target["tex1"].transform = QuarterTurn
  /\ TransformPoint(issued.transform, Whole(8), Whole(6)) = <<Whole(1), Whole(-1)>>

\* The image of point p (a pair of rationals) under: global transform G,
\* then the scale by (2/W, 2/H), then the translation by (-1, -1), then,
\* with flip, the scale by (1, -1); each step done on the point.
StepwiseImage(G, W, H, flip, p) ==
  LET a == TransformPoint(G, p[1], p[2])
      b == <<NumMul(a[1], Num(2, W)), NumMul(a[2], Num(2, H))>>
      c == <<NumAdd(b[1], Whole(-1)), NumAdd(b[2], Whole(-1))>>
  IN IF flip THEN <<c[1], NumMul(c[2], Whole(-1))>> ELSE c

\* Three points that fix an affine map.
SamplePoints ==
  {<<Whole(0), Whole(0)>>, <<Whole(1), Whole(0)>>, <<Whole(0), Whole(1)>>}

\* C17: a draw on a target of size (W, H), W, H > 0, hands the model the
\* transform that applies the stored global transform first, then the scale
\* by (2/W, 2/H), then the translation by (-1, -1), then (only with flipY)
\* the scale by (1, -1); and the draw leaves every stored global transform
\* as it was.
C17_GlobalTransformFirst ==
  [][\A t \in Targets :
       draw(t) =>
         /\ \A u \in Targets : target'[u].transform = target[u].transform
         /\ (ExpectedSize(t)[1] > 0 /\ ExpectedSize(t)[2] > 0) =>
              \A p \in SamplePoints :
                TransformPoint(issued'.transform, p[1], p[2]) =
                  StepwiseImage(target[t].transform, ExpectedSize(t)[1],
                                ExpectedSize(t)[2], target[t].flipY, p)]_vars

\* C17 witness: a draw on the 8x6 canvas with the quarter turn stored: the
\* origin goes to (3, 5), then to (3/4, 5/3), then to (-1/4, 2/3), then to
\* (-1/4, -2/3), and the quarter turn is still stored.
C17_Witness ==
  /\ issued.op = "draw"
  /\ issued.target = "canvas"
  /\ canvas = [width |-> 8, height |-> 6]
  /\ target["canvas"].transform = QuarterTurn
  /\ TransformPoint(issued.transform, Whole(0), Whole(0)) = <<Num(-1, 4), Num(-2, 3)>>

\* C14: readPixels(rect) on target T issues its one readback with T's
\* framebuffer bound, and the rectangle sent is flipRect(rect): rect itself
\* without flipY, rect mirrored around T's height with flipY, neither rounded
\* to whole pixels nor clamped to T's bounds; when T's clip rectangle is the
\* same rect, the device mask of that call is this very rectangle rounded
\* outwards and clamped, so both use one flip and one height.
C14_ReadbackRect ==
  issued.op = "readPixels" =>
    LET t == issued.target
        w == ExpectedSize(t)[1]
        h == ExpectedSize(t)[2]
        top == IF target[t].flipY THEN Px(h) - FracRect.bottom ELSE FracRect.top
        bottom == IF target[t].flipY THEN Px(h) - FracRect.top ELSE FracRect.bottom
        sent == BoxRect(issued.rect)
        x0 == Max(0, PixelFloor(sent.left))
        y0 == Max(0, PixelFloor(sent.top))
        x1 == Min(w, PixelCeil(sent.right))
        y1 == Min(h, PixelCeil(sent.bottom))
    IN /\ issued.framebuffer = OwnFramebuffer(t)
       /\ gl.framebuffer = OwnFramebuffer(t)
       /\ issued.rect = <<FracRect.left, top, FracRect.right - FracRect.left, bottom - top>>
       /\ target[t].scissor = Some(FracRect) =>
            gl.scissorBox = IF x0 < x1 /\ y0 < y1
                            THEN <<x0, y0, x1 - x0, y1 - y0>>
                            ELSE <<0, 0, 0, 0>>

\* C14 witness: a readback on the 8x6 canvas whose clip rectangle is the
\* rectangle read: the fractional rectangle (1.5, -0.5)-(3.5, 2.5) is sent
\* as (1.5, 3.5) with size (2, 3), half a pixel past the canvas edge, while
\* the mask is the whole-pixel box (1, 3, 3, 3) inside the canvas.
C14_Witness ==
  /\ issued.op = "readPixels"
  /\ issued.target = "canvas"
  /\ canvas = [width |-> 8, height |-> 6]
  /\ target["canvas"].scissor = Some(FracRect)
  /\ issued.rect = <<Px(1) + 1, Px(3) + 1, Px(2), Px(3)>>
  /\ gl.scissorBox = <<1, 3, 3, 3>>

\* C15: dispose() on the canvas target is a no-op: the step makes no device
\* call, so the device state (binding, mask, viewport, framebuffer objects)
\* is as before, and the fields of every target and the canvas are as
\* before; the canvas target stays usable, so the call can be repeated.
C15_CanvasDisposeNoOp ==
  [][\A t \in CanvasTargets :
       dispose(t) =>
         /\ gl' = gl
         /\ target' = target
         /\ canvas' = canvas
         /\ missed' = missed
         /\ target'[t].status = "live"]_vars

\* C15 witness: dispose() can be called on the canvas target right after a
\* command on a texture target, while that target's framebuffer is bound
\* and the other texture target is already disposed.
C15_Witness ==
  /\ issued.op \in Commands
  /\ issued.target = "tex1"
  /\ gl.framebuffer = target["tex1"].framebuffer
  /\ gl.framebuffer # Null
  /\ target["tex2"].status = "disposed"
  /\ ENABLED (dispose("canvas") /\ issued' # issued)

\* C16: no operation of a texture target disposes a texture: whatever was
\* constructed, assigned, replaced, detached or disposed, every texture
\* resource of the context is alive.
C16_TexturesOutliveTargets ==
  \A x \in Textures : gl.textures[x] = "alive"

\* C16 witness: tex1 was disposed while it held texture 1, and tex2 had
\* texture 2 attached and then was assigned undefined; both textures are
\* alive.
C16_Witness ==
  /\ target["tex1"].status = "disposed"
  /\ target["tex1"].texture = 1
  /\ gl.fbo[target["tex1"].framebuffer].status = "deleted"
  /\ target["tex2"].status = "live"
  /\ target["tex2"].texture = NoTexture
  /\ gl.fbo[target["tex2"].framebuffer].color0 = 2
  /\ gl.textures[1] = "alive"
  /\ gl.textures[2] = "alive"

\* C18: an operation on one texture target never changes the attachment of
\* another: colour slot 0 of the framebuffer of a constructed target B is
\* different after a step only when the step is an assignment of a texture
\* to B itself; and the framebuffer a constructor creates is no live
\* target's.
C18_AttachmentsIsolated ==
  [][\A b \in TextureTargets :
       /\ (/\ target[b].status = "live"
           /\ gl'.fbo[target[b].framebuffer].color0 #
                gl.fbo[target[b].framebuffer].color0) =>
            \E x \in Textures : setTexture(b, x)
       /\ (target[b].status = "live" /\ target'[b].status = "live") =>
            target'[b].framebuffer = target[b].framebuffer
       /\ (target[b].status = "absent" /\ target'[b].status = "live") =>
            \A a \in TextureTargets \ {b} :
              target[a].status = "live" =>
                target'[b].framebuffer # target[a].framebuffer]_vars

\* C18 witness: tex1 holds texture 2 and tex2 holds texture 1, each in its
\* own framebuffer, right after a readback on tex1.
C18_Witness ==
  /\ issued.op = "readPixels"
  /\ issued.target = "tex1"
  /\ target["tex1"].status = "live"
  /\ target["tex2"].status = "live"
  /\ target["tex1"].framebuffer # target["tex2"].framebuffer
  /\ gl.fbo[target["tex1"].framebuffer].color0 = 2
  /\ gl.fbo[target["tex2"].framebuffer].color0 = 1

\* C19: assigning a texture to texture target X, by the setter or by the
\* constructor, leaves X's framebuffer bound with that texture in colour
\* slot 0, and leaves scissor test, scissor box and viewport as they were;
\* assigning undefined, or constructing without a texture, leaves the bound
\* framebuffer as it was too.
C19_AssignmentRebinds ==
  [][\A t \in TextureTargets, x \in Textures \cup {NoTexture} :
       (setTexture(t, x) \/ TextureDrawTarget_constructor(t, x)) =>
         /\ gl'.scissorTest = gl.scissorTest
         /\ gl'.scissorBox = gl.scissorBox
         /\ gl'.viewport = gl.viewport
         /\ IF x # NoTexture
            THEN /\ gl'.framebuffer = target'[t].framebuffer
                 /\ gl'.framebuffer # Null
                 /\ gl'.fbo[gl'.framebuffer].color0 = x
                 /\ Destination(gl') = <<"texture", x>>
            ELSE gl'.framebuffer = gl.framebuffer]_vars

\* C19 witness: after a command on a target of size 8x6, the 100x50
\* texture 1 was assigned to tex2: tex2's framebuffer is bound with texture
\* 1 attached, the viewport is still 8x6, and no command has been issued
\* since.
C19_Witness ==
  /\ issued = NoCommand
  /\ target["tex2"].status = "live"
  /\ target["tex2"].texture = 1
  /\ gl.framebuffer = target["tex2"].framebuffer
  /\ gl.fbo[gl.framebuffer].color0 = 1
  /\ canvas = [width |-> 100, height |-> 50]
  /\ gl.viewport = <<0, 0, 8, 6>>
  /\ target["tex1"].status = "absent"

====
